---- MODULE Spec2Model ----
(***************************************************************************)
(* A model of three programs of the skill-eval repository:                 *)
(*   - the sandboxed assertion evaluator                                   *)
(*       src/internal/graders/data/eval_wrapper.py                         *)
(*   - the Copilot SDK executor                                            *)
(*       src/skill_eval/executors/copilot.py                               *)
(*   - the explanation-quality grader                                      *)
(*       src/examples/code-explainer/graders/explanation_quality.py        *)
(* Each program has its own specification (EvaluatorSpec, ExecutorSpec,    *)
(* GraderSpec), the module functions of the executors package have         *)
(* ModuleSpec and a single execute() call has TrialSpec; the variables of  *)
(* the other programs stay as constructed.                                 *)
(***************************************************************************)
EXTENDS Integers, Sequences, FiniteSets, TLC

VARIABLES
    \* ---- eval_wrapper.py ----
    data,          \* the JSON object read from standard input
    eval_context,  \* the namespace dict handed to every eval()
    results,       \* the results list
    stdout,        \* what the process has written to standard output
    epc,           \* position of the script
    outcomes,      \* history: how each eval() call ended
    \* ---- copilot.py: the executor object and its environment ----
    sdkInstalled,  \* whether `from copilot_sdk import CopilotClient` succeeds
    _client,       \* self._client: 0 for None, else the client's id
    _workspace,    \* self._workspace: 0 for None, else the directory's id
    fs,            \* the temporary directories on disk: id -> set of paths
    mkdtemps,      \* how many directories tempfile.mkdtemp has created
    \* ---- copilot.py: one execute() call per trial ----
    tpc,           \* position of each execute() call
    context,       \* its context argument
    events,        \* its events list
    output_parts,  \* its output_parts list
    error,         \* its error variable
    session,       \* its session: "none", "open", "destroyed"
    registered,    \* whether session.on(handle_event) has returned
    done_event,    \* its asyncio.Event
    waitEnded,     \* history: how its wait_for ended ("no", "done", "timeout")
    result,        \* the ExecutionResult it returned
    \* ---- explanation_quality.py: one grade() call ----
    gcontext,      \* the context argument
    gpc,           \* position of the call
    score,         \* the score variable, a double
    checks,        \* the checks list: TRUE for a satisfied criterion
    gresult,       \* the dict returned
    \* ---- executors/__init__.py and copilot.py: the module functions ----
    calls          \* history: the calls made and what each returned

evaluatorVars == <<data, eval_context, results, stdout, epc, outcomes>>

executorVars == <<sdkInstalled, _client, _workspace, fs, mkdtemps>>

trialVars == <<tpc, context, events, output_parts, error, session, registered,
               done_event, waitEnded, result>>

graderVars == <<gcontext, gpc, score, checks, gresult>>

moduleVars == <<calls>>

vars == <<evaluatorVars, executorVars, trialVars, graderVars, moduleVars>>

(***************************************************************************)
(* Bounds of the model.                                                    *)
(***************************************************************************)
MaxAssertions == 2
MaxTranscript == 2
MaxTrials == 2      \* execute() calls on one executor
MaxEvents == 2      \* session events delivered, over all trials
MaxSetups == 1      \* setup() calls made by the caller itself
MaxCalls == 5       \* calls of the module functions

(***************************************************************************)
(* Python / JSON values.  A JSON value that may be null or missing is a    *)
(* record [t, s]: t = "str" with the text in s, t = "null" for None, and   *)
(* t = "absent" for a key the object does not carry.                       *)
(***************************************************************************)
Str(x) == [t |-> "str", s |-> x]
Null == [t |-> "null", s |-> ""]
Absent == [t |-> "absent", s |-> ""]

\* dict.get(key, default): the default stands in for a missing key only.
DictGet(obj, key, default) == IF obj[key].t = "absent" THEN default ELSE obj[key]

\* str(v) for a string or None.
PyStr(v) == IF v.t = "str" THEN v.s ELSE "None"

\* needle in hay, for two strings.
Contains(needle, hay) ==
    \E i \in 1..(Len(hay) - Len(needle) + 1) :
        SubSeq(hay, i, i + Len(needle) - 1) = needle

\* All sequences over S of length at most n.
SeqsUpTo(S, n) == UNION {[1..k -> S] : k \in 0..n}

(***************************************************************************)
(* eval_wrapper.py: the input.                                             *)
(***************************************************************************)
\* Event records of a transcript: with and without a type, with and without
\* a payload ("content").
Events ==
    { [type |-> Str("assistant.message"), content |-> Str("ok")],
      [type |-> Str("tool.error"),        content |-> Absent],
      [type |-> Str("tool.result"),       content |-> Str("an error occurred")],
      [type |-> Absent,                   content |-> Str("no type")] }

ToolCallLists == { <<>>, << [name |-> "missing"] >> }

Outputs == { Null, Str("hi") }

\* The assertion strings the model evaluates, as written in a task file.
A_LenOutput == "len(output) > 0"
A_Tool0 == "tool_calls[0]['name'] == 'missing'"
A_Undeclared == "undefined_name"
A_Append == "tool_calls.append({'name': 'missing'})"
A_NoErrors == "len(errors) == 0"
A_Next == "(x for x in []).__next__()"
A_Throw == "(x for x in []).throw(re.error('fail'))"
A_Write == "re.enum.sys.stdout.write('x')"
A_Exit == "re.enum.sys.exit()"

Assertions ==
    { A_LenOutput, A_Tool0, A_Undeclared, A_Append, A_NoErrors,
      A_Next, A_Throw, A_Write, A_Exit }

Inputs ==
    [ output : Outputs,
      transcript : SeqsUpTo(Events, MaxTranscript),
      tool_calls : ToolCallLists,
      assertions : SeqsUpTo(Assertions, MaxAssertions) ]

(***************************************************************************)
(* eval_wrapper.py: the namespace (lines 20-39).                           *)
(***************************************************************************)
\* The filter of the list comprehension of line 25, for an event whose type
\* is a string.
IsErrorEvent(ev) ==
    \/ Contains("error", DictGet(ev, "type", Null).s)
    \/ Contains("error", PyStr(DictGet(ev, "content", Str(""))))

\* `"error" in t.get("type")` raises TypeError when the type is None; the
\* left operand of `or` is evaluated for every event of the transcript.
ErrorsRaises(transcript) ==
    \E i \in 1..Len(transcript) : DictGet(transcript[i], "type", Null).t # "str"

\* data['output'] or ""
OutputOrEmpty(v) == IF v.t = "str" /\ v.s # "" THEN v.s ELSE ""

\* The eval_context dict built from the input (the fixed built-ins are not
\* state and are left out).
BuildContext(d) ==
    [ output |-> OutputOrEmpty(d.output),
      transcript |-> d.transcript,
      tool_calls |-> d.tool_calls,
      errors |-> SelectSeq(d.transcript, IsErrorEvent) ]

NoContext == [ output |-> "", transcript |-> <<>>, tool_calls |-> <<>>, errors |-> <<>> ]

(***************************************************************************)
(* eval(assertion, {"__builtins__": {}}, eval_context) of line 48, for     *)
(* the assertion strings above.  kind is "value" (the expression returned  *)
(* a value, truthy or not), "raise" (it raised an Exception whose str() is *)
(* msg) or "exit" (it raised SystemExit, which is no Exception); ctx is    *)
(* the namespace after the call and out what the call wrote to stdout.     *)
(***************************************************************************)
\* What a write to standard output leaves there: a piece of text, or the JSON
\* object {"results": [...]}.
Text(x) == [kind |-> "text", text |-> x, results |-> <<>>]
Json(res) == [kind |-> "json", text |-> "", results |-> res]

Value(truthy, ctx) == [kind |-> "value", truthy |-> truthy, msg |-> "", ctx |-> ctx, out |-> <<>>]
Raise(msg, ctx) == [kind |-> "raise", truthy |-> FALSE, msg |-> msg, ctx |-> ctx, out |-> <<>>]

PyEval(assertion, ctx) ==
    CASE assertion = A_LenOutput -> Value(Len(ctx.output) > 0, ctx)
      [] assertion = A_Tool0 ->
            IF ctx.tool_calls = <<>>
            THEN Raise("list index out of range", ctx)
            ELSE Value(ctx.tool_calls[1].name = "missing", ctx)
      [] assertion = A_Undeclared -> Raise("name 'undefined_name' is not defined", ctx)
      [] assertion = A_Append ->
            \* list.append returns None and changes the list in place
            Value(FALSE, [ctx EXCEPT !.tool_calls = Append(@, [name |-> "missing"])])
      [] assertion = A_NoErrors -> Value(Len(ctx.errors) = 0, ctx)
      [] assertion = A_Next -> Raise("", ctx)          \* StopIteration()
      [] assertion = A_Throw -> Raise("fail", ctx)     \* re.error('fail')
      [] assertion = A_Write ->
            \* TextIOWrapper.write returns the number of characters written
            [Value(TRUE, ctx) EXCEPT !.out = <<Text("x")>>]
      [] assertion = A_Exit ->
            [kind |-> "exit", truthy |-> FALSE, msg |-> "", ctx |-> ctx, out |-> <<>>]

\* RecordResult with the "fail" marker forgotten: every value passes.
RecordResult_NoFail(r) ==
    IF r.kind = "value" THEN "" ELSE r.msg

\* Lines 49 and 51: the string appended to results.
RecordResult(r) ==
    IF r.kind = "value"
    THEN (IF r.truthy THEN "" ELSE "fail")
    ELSE r.msg

(***************************************************************************)
(* explanation_quality.py: regular expressions (re.search).  A pattern is  *)
(* a set of alternatives; an alternative is a sequence of items: a         *)
(* character class (optional or not), \w+, or the word boundary \b.        *)
(***************************************************************************)
CharAt(str, i) == SubSeq(str, i, i)

Chars(str) == { CharAt(str, i) : i \in 1..Len(str) }

LowerCase == "abcdefghijklmnopqrstuvwxyz"
UpperCase == "ABCDEFGHIJKLMNOPQRSTUVWXYZ"
Digits == Chars("0123456789")
WordChars == Chars(LowerCase) \cup Chars(UpperCase) \cup Digits \cup {"_"}
Whitespace == {" ", "\t", "\n", "\r", "\f"}

\* The characters a pattern character matches under (?i).
BothCases(c) ==
    {c} \cup { CharAt(UpperCase, i) : i \in { j \in 1..26 : CharAt(LowerCase, j) = c } }
           \cup { CharAt(LowerCase, i) : i \in { j \in 1..26 : CharAt(UpperCase, j) = c } }

Class(cs) == [k |-> "class", cs |-> cs, opt |-> FALSE]
OptClass(cs) == [k |-> "class", cs |-> cs, opt |-> TRUE]
WordPlus == [k |-> "word+", cs |-> WordChars, opt |-> FALSE]
Boundary == [k |-> "boundary", cs |-> {}, opt |-> FALSE]

\* A literal, case-sensitive and under (?i).
Lit(str) == [i \in 1..Len(str) |-> Class({CharAt(str, i)})]
LitI(str) == [i \in 1..Len(str) |-> Class(BothCases(CharAt(str, i)))]

\* \bword\b, case-sensitive and under (?i).
Word(str) == <<Boundary>> \o Lit(str) \o <<Boundary>>
WordI(str) == <<Boundary>> \o LitI(str) \o <<Boundary>>

IsWordAt(str, i) == i >= 1 /\ i <= Len(str) /\ CharAt(str, i) \in WordChars

\* Whether items k.. of the alternative match str from position i on.
RECURSIVE MatchFrom(_, _, _, _)
MatchFrom(items, k, str, i) ==
    IF k > Len(items) THEN TRUE
    ELSE LET it == items[k] IN
         CASE it.k = "boundary" ->
                /\ IsWordAt(str, i - 1) # IsWordAt(str, i)
                /\ MatchFrom(items, k + 1, str, i)
           [] it.k = "word+" ->
                /\ IsWordAt(str, i)
                /\ \/ MatchFrom(items, k, str, i + 1)
                   \/ MatchFrom(items, k + 1, str, i + 1)
           [] it.k = "class" ->
                \/ /\ i <= Len(str)
                   /\ CharAt(str, i) \in it.cs
                   /\ MatchFrom(items, k + 1, str, i + 1)
                \/ /\ it.opt
                   /\ MatchFrom(items, k + 1, str, i)

\* re.search(pattern, str) is not None
Search(pattern, str) ==
    \E alt \in pattern : \E i \in 1..(Len(str) + 1) : MatchFrom(alt, 1, str, i)

\* Lines 64-68 with the steps pattern accepting "then" without its comma.
section_patterns_ThenNoComma ==
    << { LitI("overview"), LitI("summary"), LitI("introduction") },
       { LitI("step") \o <<OptClass(Whitespace \cup {"-"})>> \o LitI("by")
            \o <<OptClass(Whitespace \cup {"-"})>> \o LitI("step"),
         LitI("step ") \o <<Class(Digits)>>,
         LitI("first,"), LitI("then"), LitI("finally,"), Lit("1.") },
       { LitI("key concept"), LitI("important"), LitI("note"), LitI("remember") } >>

\* Lines 64-68.
section_patterns ==
    << { LitI("overview"), LitI("summary"), LitI("introduction") },
       { LitI("step") \o <<OptClass(Whitespace \cup {"-"})>> \o LitI("by")
            \o <<OptClass(Whitespace \cup {"-"})>> \o LitI("step"),
         LitI("step ") \o <<Class(Digits)>>,
         LitI("first,"), LitI("then,"), LitI("finally,"), Lit("1.") },
       { LitI("key concept"), LitI("important"), LitI("note"), LitI("remember") } >>

\* Lines 82-88: a language is identified when any of its patterns matches.
language_indicators ==
    [ python |-> { WordI("python"), Word("def"), Word("import"),
                   Lit("__") \o <<WordPlus>> \o Lit("__") },
      javascript |-> { WordI("javascript"), WordI("js"), Word("function"),
                       Word("const"), Word("let") },
      sql |-> { WordI("sql"), WordI("query"), WordI("select"), WordI("table") },
      java |-> { WordI("java"), Word("class"), Word("public"), Word("private") },
      typescript |-> { WordI("typescript"), WordI("ts"), Word("interface"),
                       Word("type") } ]

\* Lines 105-111.
educational_patterns ==
    << { LitI("this code"), LitI("this function"), LitI("this method"),
         LitI("this query"), LitI("this snippet") },
       { LitI("returns"), LitI("produces"), LitI("creates"), LitI("generates"),
         LitI("outputs") },
       { LitI("means"), LitI("indicates"), LitI("represents"), LitI("is used to") },
       { LitI("because"), LitI("since"), LitI("therefore"), LitI("so that") },
       { LitI("for example"), LitI("such as"), LitI("like"), LitI("e.g.") } >>

\* Lines 121-128.
error_patterns ==
    << { LitI("i don") \o <<OptClass({"'"})>> \o LitI("t know") },
       { LitI("i cannot explain"), LitI("i cannot understand"), LitI("i cannot help") },
       { LitI("error occurred") },
       { LitI("unable to process"), LitI("unable to analyze"), LitI("unable to explain") },
       { LitI("not sure what") },
       { LitI("invalid code"), LitI("invalid syntax"), LitI("invalid input") } >>

\* The patterns of the list that match the output.
Matches(patterns, str) == { i \in 1..Len(patterns) : Search(patterns[i], str) }

(***************************************************************************)
(* explanation_quality.py: the score, an IEEE 754 double.  A double d with *)
(* 0 <= d <= 2 is held exactly as the integer d * 2^55, in two limbs of 28 *)
(* bits: hi * 2^28 + lo.                                                   *)
(***************************************************************************)
Limb == 268435456

F00 == [hi |-> 0, lo |-> 0]                     \* 0.0
F02 == [hi |-> 26843545, lo |-> 161061274]      \* 0.2 = 0x1999999999999A * 2^-55
F06 == [hi |-> 80530636, lo |-> 214748364]      \* 0.6 = 0x13333333333333 * 2^-53
F10 == [hi |-> 134217728, lo |-> 0]             \* 1.0

\* The exact sum of two numbers.
ExactAdd(a, b) ==
    [hi |-> a.hi + b.hi + ((a.lo + b.lo) \div Limb), lo |-> (a.lo + b.lo) % Limb]

\* The number of low bits that do not fit a 53-bit significand.
ExtraBits(x) ==
    IF x.hi >= 268435456 THEN 4
    ELSE IF x.hi >= 134217728 THEN 3
    ELSE IF x.hi >= 67108864 THEN 2
    ELSE IF x.hi >= 33554432 THEN 1
    ELSE 0

\* Rounding to the nearest double, ties to even.
RoundToDouble(x) ==
    LET q == 2 ^ ExtraBits(x)
        r == x.lo % q
        kept == x.lo - r
        up == (2 * r > q) \/ (2 * r = q /\ (x.lo \div q) % 2 = 1)
        lo == IF up THEN kept + q ELSE kept
    IN  [hi |-> x.hi + (lo \div Limb), lo |-> lo % Limb]

\* a + b and a >= b on doubles.
FAdd(a, b) == RoundToDouble(ExactAdd(a, b))
FGe(a, b) == a.hi > b.hi \/ (a.hi = b.hi /\ a.lo >= b.lo)

(***************************************************************************)
(* explanation_quality.py: grade (lines 23-150).                           *)
(***************************************************************************)
O_Empty == ""
O_Example == "This function returns the sum. For example, add(1,2) returns 3. Overview: it validates inputs, then adds them."
O_Good == "Overview: this function computes a total. Step 1 reads the list, then it adds each item because the caller needs a sum. Note that def total(xs) is written in Python and returns an int, for example total([1, 2]) gives 3. It is used to sum prices."
O_Refusal == "I don't know what this does."
O_LongRefusal == "I cannot explain the snippet you sent. An error occurred while reading it and I am unable to process the rest of the file, so there is nothing more to say about its behaviour at this point in time. Please send it once again later on."
O_Sql == "Summary: this query selects rows from the users table. First, it filters by id."
O_Dunder == "The __init__ hook runs; it is important to remember that."

\* The output key: missing, null (None), or a text.
GraderOutputs ==
    { Absent, Null, Str(O_Empty), Str(O_Example), Str(O_Good), Str(O_Refusal),
      Str(O_LongRefusal), Str(O_Sql), Str(O_Dunder) }

\* task["inputs"]["context"]["language"], Absent when the context has no
\* task or the task no language.
GraderLanguages == { Absent, Str("python"), Str("sql"), Str("rust") }

GraderContexts == [output : GraderOutputs, language : GraderLanguages]

min_length == 200

\* Line 47: context.get("output", "")
OutputOf(ctx) == DictGet(ctx, "output", Str("")).s

\* Whether that value is a string; len(None) of line 56 raises TypeError.
OutputIsText(ctx) == DictGet(ctx, "output", Str("")).t = "str"

\* Line 81: task.get("inputs", {}).get("context", {}).get("language", "")
LanguageOf(ctx) == DictGet(ctx, "language", Str("")).s

\* Line 90: language and language in language_indicators, then line 93.
LanguageCheck(language, output) ==
    IF language # "" /\ language \in DOMAIN language_indicators
    THEN Search(language_indicators[language], output)
    ELSE TRUE       \* the check is skipped and counts as satisfied

\* Line 138 with a threshold of 0.4.
Passed_Lenient(sc) == FGe(sc, FAdd(F02, F02))

\* Line 138 with a threshold of 0.8.
Passed_Strict(sc) == FGe(sc, FAdd(F06, F02))

\* Line 138: passed = score >= 0.6
Passed(sc) == FGe(sc, F06)

NoGraderResult == [score |-> F00, passed |-> FALSE, threshold |-> F00]

GraderOff ==
    /\ gcontext = [output |-> Absent, language |-> Absent]
    /\ gpc = "off"
    /\ score = F00
    /\ checks = <<>>
    /\ gresult = NoGraderResult

\* One criterion: 0.2 is added to the score when it is satisfied, and the
\* outcome is appended to checks.
Criterion(ok, next) ==
    /\ score' = IF ok THEN FAdd(score, F02) ELSE score
    /\ checks' = Append(checks, ok)
    /\ gpc' = next
    /\ UNCHANGED <<gcontext, gresult>>
    /\ UNCHANGED <<evaluatorVars, executorVars, trialVars, moduleVars>>

\* Lines 53-60.
CheckLength ==
    /\ gpc = "length"
    /\ OutputIsText(gcontext)
    /\ Criterion(Len(OutputOf(gcontext)) >= min_length, "structure")

\* Line 56 on an output that is None: the TypeError leaves grade.
CheckLengthRaises ==
    /\ gpc = "length"
    /\ ~OutputIsText(gcontext)
    /\ gpc' = "raised"
    /\ UNCHANGED <<gcontext, score, checks, gresult>>
    /\ UNCHANGED <<evaluatorVars, executorVars, trialVars, moduleVars>>

\* Lines 62-78.
CheckStructure ==
    /\ gpc = "structure"
    /\ Criterion(Cardinality(Matches(section_patterns, OutputOf(gcontext))) >= 2,
                 "language")

\* Lines 80-101.
CheckLanguage ==
    /\ gpc = "language"
    /\ Criterion(LanguageCheck(LanguageOf(gcontext), OutputOf(gcontext)), "tone")

\* Lines 103-118.
CheckTone ==
    /\ gpc = "tone"
    /\ Criterion(Cardinality(Matches(educational_patterns, OutputOf(gcontext))) >= 2,
                 "errors")

\* Lines 120-135.
CheckErrors ==
    /\ gpc = "errors"
    /\ Criterion(Matches(error_patterns, OutputOf(gcontext)) = {}, "return")

\* Lines 137-150.
GradeReturn ==
    /\ gpc = "return"
    /\ gresult' = [score |-> score, passed |-> Passed(score), threshold |-> F06]
    /\ gpc' = "returned"
    /\ UNCHANGED <<gcontext, score, checks>>
    /\ UNCHANGED <<evaluatorVars, executorVars, trialVars, moduleVars>>

(***************************************************************************)
(* copilot.py: the inputs of execute() and what the SDK can deliver.       *)
(***************************************************************************)
Trials == 1..MaxTrials

\* The context argument: None, or a dict with a list of files.
CtxNone == [given |-> FALSE, files |-> <<>>]
\* c.txt has no content and is skipped
CtxA == [given |-> TRUE, files |-> << [path |-> "c.txt", content |-> ""],
                                      [path |-> "a.txt", content |-> "A"] >>]
\* "d/" names a directory: open() raises IsADirectoryError on it
CtxBad == [given |-> TRUE, files |-> << [path |-> "d/", content |-> "D"] >>]

Contexts == { CtxNone, CtxA, CtxBad }

\* The data dict of a raw event; a key it does not carry is Absent.
NoData == [message |-> Absent, content |-> Absent, deltaContent |-> Absent,
           toolName |-> Absent, arguments |-> Absent]

RawEvents ==
    { [type |-> Str("session.idle"), data |-> NoData],
      [type |-> Str("session.error"), data |-> [NoData EXCEPT !.message = Str("boom")]],
      [type |-> Str("session.error"), data |-> NoData],
      [type |-> Str("session.error"), data |-> [NoData EXCEPT !.message = Null]],
      [type |-> Str("assistant.message"), data |-> [NoData EXCEPT !.content = Str("Hel")]],
      [type |-> Str("assistant.message_delta"), data |-> [NoData EXCEPT !.deltaContent = Str("lo")]],
      [type |-> Str("tool.execution_start"),
       data |-> [NoData EXCEPT !.toolName = Str("bash"), !.arguments = Str("ls"),
                               !.content = Str("run")]],
      [type |-> Absent, data |-> [NoData EXCEPT !.deltaContent = Str("zz")]] }

\* The text of the exceptions the model raises: str(e).
ContextErrorText == "[Errno 21] Is a directory"
CreateSessionErrorText == "createSession failed"
SessionOnErrorText == "session.on failed"
SendErrorText == "send failed"
TimeoutText == "Session timed out after 300s"

(***************************************************************************)
(* copilot.py: SessionEvent and handle_event (lines 158-177).              *)
(***************************************************************************)
\* SessionEvent(type=raw_event.get("type", "unknown"), data=raw_event.get("data", {}))
SessionEvent(raw) ==
    [type |-> DictGet(raw, "type", Str("unknown")).s, data |-> raw.data]

\* The accessors of SessionEvent (skill_eval/executors/base.py): the named
\* entry of the event's data, None when it has none.
EventContent(ev) == DictGet(ev.data, "content", Null)
EventDeltaContent(ev) == DictGet(ev.data, "deltaContent", Null)
EventToolName(ev) == DictGet(ev.data, "toolName", Null)
EventArguments(ev) == DictGet(ev.data, "arguments", Null)

Truthy(v) == v.t = "str" /\ v.s # ""

\* Lines 165-169 without the elif branch: deltas are not collected.
CollectOutput_NoDelta(parts, ev) ==
    IF ev.type = "assistant.message" /\ Truthy(EventContent(ev))
    THEN Append(parts, EventContent(ev).s)
    ELSE parts

\* Lines 165-169: what the event adds to output_parts.
CollectOutput(parts, ev) ==
    IF ev.type = "assistant.message" /\ Truthy(EventContent(ev))
    THEN Append(parts, EventContent(ev).s)
    ELSE IF ev.type = "assistant.message_delta" /\ Truthy(EventDeltaContent(ev))
    THEN Append(parts, EventDeltaContent(ev).s)
    ELSE parts

\* Line 176: event.data.get("message", "Unknown error")
ErrorMessage(ev) == DictGet(ev.data, "message", Str("Unknown error"))

\* "".join(output_parts)
RECURSIVE Join(_)
Join(parts) == IF parts = <<>> THEN "" ELSE Head(parts) \o Join(Tail(parts))

\* Lines 207-211 without the filter of line 210: an entry for every event.
ToolCalls_AllEvents(evs) ==
    [i \in 1..Len(evs) |-> [name |-> EventToolName(evs[i]),
                            arguments |-> EventArguments(evs[i])]]

\* Lines 207-211: the tool calls of the events list.
RECURSIVE ToolCalls(_)
ToolCalls(evs) ==
    IF evs = <<>> THEN <<>>
    ELSE (IF Head(evs).type = "tool.execution_start"
          THEN << [name |-> EventToolName(Head(evs)),
                   arguments |-> EventArguments(Head(evs))] >>
          ELSE <<>>) \o ToolCalls(Tail(evs))

\* Lines 203-222: the ExecutionResult built from the call's variables.  The
\* result's events field is the events list itself, not a copy.
ExecutionResult(parts, evs, err) ==
    [ output |-> Join(parts),
      tool_calls |-> ToolCalls(evs),
      error |-> err,
      success |-> (err = Null) ]

NoResult == [output |-> "", tool_calls |-> <<>>, error |-> Null, success |-> FALSE]

(***************************************************************************)
(* copilot.py: _setup_context (lines 224-238).                             *)
(***************************************************************************)
\* The loop over the files: each file with a path and a content is written
\* under the workspace; the loop ends at the first write that raises.
RECURSIVE WriteFiles(_, _)
WriteFiles(files, written) ==
    IF files = <<>> THEN [written |-> written, raised |-> FALSE]
    ELSE LET f == Head(files) IN
         IF f.path # "" /\ f.content # ""
         THEN IF SubSeq(f.path, Len(f.path), Len(f.path)) = "/"
              THEN \* os.makedirs has created the directory, open() raises
                   [written |-> written \cup {f.path}, raised |-> TRUE]
              ELSE WriteFiles(Tail(files), written \cup {f.path})
         ELSE WriteFiles(Tail(files), written)

\* The files of directory d (none if it does not exist).
FilesOf(disk, d) == IF d \in DOMAIN disk THEN disk[d] ELSE {}

\* The disk with directory d holding the files fl.
WithDir(disk, d, fl) == [x \in (DOMAIN disk) \cup {d} |-> IF x = d THEN fl ELSE disk[x]]

\* The disk without directory d.
WithoutDir(disk, d) == [x \in (DOMAIN disk) \ {d} |-> disk[x]]

(***************************************************************************)
(* copilot.py: the executor.                                               *)
(***************************************************************************)
\* The executor as __init__ leaves it (lines 86-87), no call made.
ExecutorOff ==
    /\ sdkInstalled = FALSE
    /\ _client = 0
    /\ _workspace = 0
    /\ fs = << >>
    /\ mkdtemps = 0
    /\ tpc = [t \in Trials |-> "idle"]
    /\ context = [t \in Trials |-> CtxNone]
    /\ events = [t \in Trials |-> <<>>]
    /\ output_parts = [t \in Trials |-> <<>>]
    /\ error = [t \in Trials |-> Null]
    /\ session = [t \in Trials |-> "none"]
    /\ registered = [t \in Trials |-> FALSE]
    /\ done_event = [t \in Trials |-> FALSE]
    /\ waitEnded = [t \in Trials |-> "no"]
    /\ result = [t \in Trials |-> NoResult]

\* No module function called yet.
ModuleOff == calls = <<>>

EvaluatorOff ==
    /\ data = [output |-> Null, transcript |-> <<>>, tool_calls |-> <<>>, assertions |-> <<>>]
    /\ eval_context = NoContext
    /\ results = <<>>
    /\ stdout = <<>>
    /\ epc = "off"
    /\ outcomes = <<>>

ExecutorInit ==
    /\ sdkInstalled \in BOOLEAN
    /\ _client = 0
    /\ _workspace = 0
    /\ fs = << >>
    /\ mkdtemps = 0
    /\ tpc = [t \in Trials |-> "idle"]
    /\ context = [t \in Trials |-> CtxNone]
    /\ events = [t \in Trials |-> <<>>]
    /\ output_parts = [t \in Trials |-> <<>>]
    /\ error = [t \in Trials |-> Null]
    /\ session = [t \in Trials |-> "none"]
    /\ registered = [t \in Trials |-> FALSE]
    /\ done_event = [t \in Trials |-> FALSE]
    /\ waitEnded = [t \in Trials |-> "no"]
    /\ result = [t \in Trials |-> NoResult]
    /\ EvaluatorOff
    /\ GraderOff
    /\ ModuleOff

\* The calls are numbered in the order in which they are made.
IsNextCall(t) ==
    /\ tpc[t] = "idle"
    /\ \A u \in Trials : u < t => tpc[u] # "idle"

\* No execute() call is between its first and its last step.
NoTrialRunning == \A t \in Trials : tpc[t] \in {"idle", "returned", "raised"}

\* The end of execute (lines 200-222) with the error err: the call returns.
Return(t, err) ==
    /\ error' = [error EXCEPT ![t] = err]
    /\ result' = [result EXCEPT ![t] = ExecutionResult(output_parts[t], events[t], err)]
    /\ tpc' = [tpc EXCEPT ![t] = "returned"]

\* setup() called by the owner of the executor (lines 89-107).
Setup ==
    /\ NoTrialRunning
    /\ mkdtemps < MaxSetups
    /\ sdkInstalled                 \* else _get_copilot_client raises, nothing changes
    /\ mkdtemps' = mkdtemps + 1
    /\ _workspace' = mkdtemps + 1
    /\ fs' = WithDir(fs, mkdtemps + 1, {})
    /\ \/ _client' = mkdtemps + 1
       \/ UNCHANGED _client         \* ClientClass(...) raises
    /\ UNCHANGED <<sdkInstalled, trialVars, evaluatorVars, graderVars, moduleVars>>

\* teardown() (lines 109-123), called between execute() calls.  client.stop
\* and shutil.rmtree may raise; both exceptions are swallowed, and line 123
\* clears self._workspace whether rmtree raised or not.
Teardown ==
    /\ NoTrialRunning
    /\ _client # 0 \/ _workspace # 0
    /\ _client' = 0
    /\ IF _workspace # 0 /\ _workspace \in DOMAIN fs
       THEN /\ _workspace' = 0
            /\ \/ fs' = WithoutDir(fs, _workspace)
               \/ UNCHANGED fs                  \* rmtree raises
       ELSE UNCHANGED <<fs, _workspace>>
    /\ UNCHANGED <<sdkInstalled, mkdtemps, trialVars, evaluatorVars, graderVars, moduleVars>>

\* execute(), lines 132-133 with a client at hand, then lines 135-153 up to
\* the suspension in createSession.  ws is the workspace, disk the disk.
ExecuteBody(t, ctx, ws, disk) ==
    /\ context' = [context EXCEPT ![t] = ctx]
    /\ IF ctx.given /\ ws # 0
       THEN LET w == WriteFiles(ctx.files, FilesOf(disk, ws)) IN
            /\ fs' = WithDir(disk, ws, w.written)
            /\ IF w.raised
               THEN Return(t, Str(ContextErrorText))
               ELSE /\ tpc' = [tpc EXCEPT ![t] = "createSession"]
                    /\ UNCHANGED <<error, result>>
       ELSE /\ fs' = disk
            /\ tpc' = [tpc EXCEPT ![t] = "createSession"]
            /\ UNCHANGED <<error, result>>

\* execute() on an executor that has a client.
ExecuteWithClient(t, ctx) ==
    /\ IsNextCall(t)
    /\ _client # 0
    /\ ExecuteBody(t, ctx, _workspace, fs)
    /\ UNCHANGED <<sdkInstalled, _client, _workspace, mkdtemps>>
    /\ UNCHANGED <<events, output_parts, session, registered, done_event, waitEnded>>
    /\ UNCHANGED <<evaluatorVars, graderVars, moduleVars>>

\* execute() on an executor without a client: setup() runs first, outside the
\* try block; it has no suspension point.
ExecuteWithSetup(t, ctx) ==
    /\ IsNextCall(t)
    /\ _client = 0
    /\ sdkInstalled
    /\ mkdtemps' = mkdtemps + 1
    /\ _workspace' = mkdtemps + 1
    /\ _client' = mkdtemps + 1
    /\ ExecuteBody(t, ctx, mkdtemps + 1, WithDir(fs, mkdtemps + 1, {}))
    /\ UNCHANGED sdkInstalled
    /\ UNCHANGED <<events, output_parts, session, registered, done_event, waitEnded>>
    /\ UNCHANGED <<evaluatorVars, graderVars, moduleVars>>

\* execute() whose setup() raises: ImportError from _get_copilot_client, or
\* an exception of ClientClass(...) after the workspace was created.  The
\* exception leaves execute.
ExecuteSetupRaises(t, ctx) ==
    /\ IsNextCall(t)
    /\ _client = 0
    /\ context' = [context EXCEPT ![t] = ctx]
    /\ tpc' = [tpc EXCEPT ![t] = "raised"]
    /\ IF sdkInstalled
       THEN /\ mkdtemps' = mkdtemps + 1
            /\ _workspace' = mkdtemps + 1
            /\ fs' = WithDir(fs, mkdtemps + 1, {})
       ELSE UNCHANGED <<mkdtemps, _workspace, fs>>
    /\ UNCHANGED <<sdkInstalled, _client>>
    /\ UNCHANGED <<events, output_parts, error, session, registered, done_event, waitEnded, result>>
    /\ UNCHANGED <<evaluatorVars, graderVars, moduleVars>>

\* createSession returns (lines 146-153); the handler is registered (line
\* 180) and the call suspends in send (line 183).
CreateSessionReturns(t) ==
    /\ tpc[t] = "createSession"
    /\ session' = [session EXCEPT ![t] = "open"]
    /\ registered' = [registered EXCEPT ![t] = TRUE]
    /\ tpc' = [tpc EXCEPT ![t] = "send"]
    /\ UNCHANGED <<context, events, output_parts, error, done_event, waitEnded, result>>
    /\ UNCHANGED <<executorVars, evaluatorVars, graderVars, moduleVars>>

\* createSession raises: caught at line 200.
CreateSessionRaises(t) ==
    /\ tpc[t] = "createSession"
    /\ Return(t, Str(CreateSessionErrorText))
    /\ UNCHANGED <<context, events, output_parts, session, registered, done_event, waitEnded>>
    /\ UNCHANGED <<executorVars, evaluatorVars, graderVars, moduleVars>>

\* createSession returns and session.on raises: caught at line 200, the
\* session is left as it is.
SessionOnRaises(t) ==
    /\ tpc[t] = "createSession"
    /\ session' = [session EXCEPT ![t] = "open"]
    /\ Return(t, Str(SessionOnErrorText))
    /\ UNCHANGED <<context, events, output_parts, registered, done_event, waitEnded>>
    /\ UNCHANGED <<executorVars, evaluatorVars, graderVars, moduleVars>>

\* send returns: the call waits on done_event (lines 186-190).
SendReturns(t) ==
    /\ tpc[t] = "send"
    /\ tpc' = [tpc EXCEPT ![t] = "waiting"]
    /\ UNCHANGED <<context, events, output_parts, error, session, registered,
                   done_event, waitEnded, result>>
    /\ UNCHANGED <<executorVars, evaluatorVars, graderVars, moduleVars>>

\* send raises: caught at line 200.
SendRaises(t) ==
    /\ tpc[t] = "send"
    /\ Return(t, Str(SendErrorText))
    /\ UNCHANGED <<context, events, output_parts, session, registered, done_event, waitEnded>>
    /\ UNCHANGED <<executorVars, evaluatorVars, graderVars, moduleVars>>

\* The number of events the sessions of calls 1..n have delivered.
RECURSIVE Delivered(_)
Delivered(n) == IF n = 0 THEN 0 ELSE Len(events[n]) + Delivered(n - 1)

\* The session calls handle_event(raw) (lines 158-177).  It can do so as
\* long as the session is open and the handler registered.
HandleEvent(t, raw) ==
    /\ session[t] = "open"
    /\ registered[t]
    /\ Delivered(MaxTrials) < MaxEvents
    /\ LET ev == SessionEvent(raw) IN
        /\ events' = [events EXCEPT ![t] = Append(@, ev)]
        /\ output_parts' = [output_parts EXCEPT ![t] = CollectOutput(@, ev)]
        /\ done_event' = [done_event EXCEPT ![t] =
                            @ \/ ev.type \in {"session.idle", "session.error"}]
        /\ error' = [error EXCEPT ![t] =
                        IF ev.type = "session.error" THEN ErrorMessage(ev) ELSE @]
    /\ UNCHANGED <<tpc, context, session, registered, waitEnded, result>>
    /\ UNCHANGED <<executorVars, evaluatorVars, graderVars, moduleVars>>

\* done_event is set: wait_for returns, the call suspends in destroy.
WaitDone(t) ==
    /\ tpc[t] = "waiting"
    /\ done_event[t]
    /\ tpc' = [tpc EXCEPT ![t] = "destroy"]
    /\ waitEnded' = [waitEnded EXCEPT ![t] = "done"]
    /\ UNCHANGED <<context, events, output_parts, error, session, registered,
                   done_event, result>>
    /\ UNCHANGED <<executorVars, evaluatorVars, graderVars, moduleVars>>

\* timeout_seconds pass with done_event not set (lines 191-192).
WaitTimeout(t) ==
    /\ tpc[t] = "waiting"
    /\ ~done_event[t]
    /\ error' = [error EXCEPT ![t] = Str(TimeoutText)]
    /\ tpc' = [tpc EXCEPT ![t] = "destroy"]
    /\ waitEnded' = [waitEnded EXCEPT ![t] = "timeout"]
    /\ UNCHANGED <<context, events, output_parts, session, registered,
                   done_event, result>>
    /\ UNCHANGED <<executorVars, evaluatorVars, graderVars, moduleVars>>

\* destroy returns (line 196): the call returns its result.
DestroyReturns(t) ==
    /\ tpc[t] = "destroy"
    /\ session' = [session EXCEPT ![t] = "destroyed"]
    /\ Return(t, error[t])
    /\ UNCHANGED <<context, events, output_parts, registered, done_event, waitEnded>>
    /\ UNCHANGED <<executorVars, evaluatorVars, graderVars, moduleVars>>

\* destroy raises: swallowed (lines 197-198), the session is left open.
DestroyRaises(t) ==
    /\ tpc[t] = "destroy"
    /\ Return(t, error[t])
    /\ UNCHANGED <<context, events, output_parts, session, registered, done_event, waitEnded>>
    /\ UNCHANGED <<executorVars, evaluatorVars, graderVars, moduleVars>>

ExecutorNext ==
    \/ Setup
    \/ Teardown
    \/ \E t \in Trials, ctx \in Contexts : ExecuteWithClient(t, ctx)
    \/ \E t \in Trials, ctx \in Contexts : ExecuteWithSetup(t, ctx)
    \/ \E t \in Trials, ctx \in Contexts : ExecuteSetupRaises(t, ctx)
    \/ \E t \in Trials : CreateSessionReturns(t)
    \/ \E t \in Trials : CreateSessionRaises(t)
    \/ \E t \in Trials : SessionOnRaises(t)
    \/ \E t \in Trials : SendReturns(t)
    \/ \E t \in Trials : SendRaises(t)
    \/ \E t \in Trials, raw \in RawEvents : HandleEvent(t, raw)
    \/ \E t \in Trials : WaitDone(t)
    \/ \E t \in Trials : WaitTimeout(t)
    \/ \E t \in Trials : DestroyReturns(t)
    \/ \E t \in Trials : DestroyRaises(t)

ExecutorSpec == ExecutorInit /\ [][ExecutorNext]_vars

\* The execute() calls alone, on an executor whose owner calls neither
\* setup() nor teardown().
ExecuteNext ==
    \/ \E t \in Trials, ctx \in Contexts : ExecuteWithClient(t, ctx)
    \/ \E t \in Trials, ctx \in Contexts : ExecuteWithSetup(t, ctx)
    \/ \E t \in Trials, ctx \in Contexts : ExecuteSetupRaises(t, ctx)
    \/ \E t \in Trials : CreateSessionReturns(t)
    \/ \E t \in Trials : CreateSessionRaises(t)
    \/ \E t \in Trials : SessionOnRaises(t)
    \/ \E t \in Trials : SendReturns(t)
    \/ \E t \in Trials : SendRaises(t)
    \/ \E t \in Trials, raw \in RawEvents : HandleEvent(t, raw)
    \/ \E t \in Trials : WaitDone(t)
    \/ \E t \in Trials : WaitTimeout(t)
    \/ \E t \in Trials : DestroyReturns(t)
    \/ \E t \in Trials : DestroyRaises(t)

\* The event loop resumes a call whose wait is over, and the timeout of
\* wait_for fires when done_event stays unset; nothing in the code makes a
\* call into the SDK (createSession, send, destroy) return.
ExecuteFairness ==
    \A t \in Trials : WF_vars(WaitDone(t)) /\ WF_vars(WaitTimeout(t))

ExecuteFairSpec == ExecutorInit /\ [][ExecuteNext]_vars /\ ExecuteFairness

\* One execute() call on a fresh executor, from its first line to its return
\* and the events its session delivers afterwards.
TrialNext ==
    \/ \E ctx \in Contexts : ExecuteWithSetup(1, ctx)
    \/ \E ctx \in Contexts : ExecuteSetupRaises(1, ctx)
    \/ CreateSessionReturns(1)
    \/ CreateSessionRaises(1)
    \/ SessionOnRaises(1)
    \/ SendReturns(1)
    \/ SendRaises(1)
    \/ \E raw \in RawEvents : HandleEvent(1, raw)
    \/ WaitDone(1)
    \/ WaitTimeout(1)
    \/ DestroyReturns(1)
    \/ DestroyRaises(1)

TrialSpec == ExecutorInit /\ [][TrialNext]_vars

(***************************************************************************)
(* executors/__init__.py and copilot.py: the module functions.             *)
(***************************************************************************)
\* The modules an import statement finds: the standard library, the package
\* itself and, when it is installed, the Copilot SDK.
Importable ==
    { "__future__", "asyncio", "os", "shutil", "tempfile", "time", "typing",
      "skill_eval.executors.base" }
        \cup (IF sdkInstalled THEN {"copilot_sdk"} ELSE {})

\* The imports that run when copilot.py is imported (lines 23-32); the SDK
\* is imported later, inside _get_copilot_client.
CopilotModuleImports ==
    { "__future__", "asyncio", "os", "shutil", "tempfile", "time", "typing",
      "skill_eval.executors.base" }

\* _get_copilot_client (lines 38-50): the client class, or ImportError.
_get_copilot_client ==
    IF "copilot_sdk" \in Importable THEN "CopilotClient" ELSE "ImportError"

\* is_copilot_sdk_available (lines 241-247).
is_copilot_sdk_available ==
    IF _get_copilot_client = "ImportError" THEN "False" ELSE "True"

\* get_copilot_executor (__init__.py, lines 14-20): the import of line 17
\* raises ImportError when an import of copilot.py's module body fails.
get_copilot_executor ==
    IF CopilotModuleImports \subseteq Importable THEN "CopilotExecutor" ELSE "None"

\* A call of get_copilot_executor().
GetCopilotExecutor ==
    /\ Len(calls) < MaxCalls
    /\ calls' = Append(calls, [fn |-> "get_copilot_executor", ret |-> get_copilot_executor])
    /\ UNCHANGED <<evaluatorVars, executorVars, trialVars, graderVars>>

\* A call of is_copilot_sdk_available().
IsCopilotSdkAvailable ==
    /\ Len(calls) < MaxCalls
    /\ calls' = Append(calls, [fn |-> "is_copilot_sdk_available",
                               ret |-> is_copilot_sdk_available])
    /\ UNCHANGED <<evaluatorVars, executorVars, trialVars, graderVars>>

ModuleNext == GetCopilotExecutor \/ IsCopilotSdkAvailable

ModuleSpec == ExecutorInit /\ [][ModuleNext]_vars

(***************************************************************************)
(* eval_wrapper.py: the script.                                            *)
(***************************************************************************)
EvaluatorInit ==
    /\ data \in Inputs
    /\ eval_context = NoContext
    /\ results = <<>>
    /\ stdout = <<>>
    /\ epc = "start"
    /\ outcomes = <<>>
    /\ ExecutorOff
    /\ GraderOff
    /\ ModuleOff

\* Lines 11-44: read the input, build eval_context.  An uncaught TypeError
\* ends the process with a traceback on standard error.
ReadInput ==
    /\ epc = "start"
    /\ IF ErrorsRaises(data.transcript)
       THEN /\ epc' = "crashed"
            /\ UNCHANGED eval_context
       ELSE /\ epc' = "loop"
            /\ eval_context' = BuildContext(data)
    /\ UNCHANGED <<data, results, stdout, outcomes>>
    /\ UNCHANGED <<executorVars, trialVars, graderVars, moduleVars>>

\* Lines 46-51: one iteration of the loop.
EvalAssertion ==
    /\ epc = "loop"
    /\ Len(results) < Len(data.assertions)
    /\ LET r == PyEval(data.assertions[Len(results) + 1], eval_context) IN
        /\ eval_context' = r.ctx
        /\ stdout' = stdout \o r.out
        /\ outcomes' = Append(outcomes, [kind |-> r.kind, truthy |-> r.truthy])
        /\ IF r.kind = "exit"
           THEN /\ epc' = "exited"
                /\ UNCHANGED results
           ELSE /\ results' = Append(results, RecordResult(r))
                /\ UNCHANGED epc
    /\ UNCHANGED data
    /\ UNCHANGED <<executorVars, trialVars, graderVars, moduleVars>>

\* Lines 53-55: print(json.dumps({"results": results})).
PrintResults ==
    /\ epc = "loop"
    /\ Len(results) = Len(data.assertions)
    /\ stdout' = Append(stdout, Json(results))
    /\ epc' = "done"
    /\ UNCHANGED <<data, eval_context, results, outcomes>>
    /\ UNCHANGED <<executorVars, trialVars, graderVars, moduleVars>>

EvaluatorNext == ReadInput \/ EvalAssertion \/ PrintResults

EvaluatorSpec == EvaluatorInit /\ [][EvaluatorNext]_vars

(***************************************************************************)
(* explanation_quality.py: one grade() call.                               *)
(***************************************************************************)
GraderInit ==
    /\ gcontext \in GraderContexts
    /\ gpc = "length"
    /\ score = F00
    /\ checks = <<>>
    /\ gresult = NoGraderResult
    /\ EvaluatorOff
    /\ ExecutorOff
    /\ ModuleOff

GraderNext ==
    \/ CheckLength
    \/ CheckLengthRaises
    \/ CheckStructure
    \/ CheckLanguage
    \/ CheckTone
    \/ CheckErrors
    \/ GradeReturn

GraderSpec == GraderInit /\ [][GraderNext]_vars

(***************************************************************************)
(* Properties of the evaluator.                                            *)
(***************************************************************************)
EvaluatorEnded == epc \in {"done", "exited", "crashed"}

\* C1: for every assertion whose evaluation does not raise, the recorded
\* result is "" exactly when the value is truthy and "fail" exactly when it
\* is falsy; nothing else is recorded for it.
C1_NonRaisingResult ==
    \A i \in 1..Len(results) :
        outcomes[i].kind = "value" =>
            /\ results[i] \in {"", "fail"}
            /\ (results[i] = "") <=> outcomes[i].truthy
            /\ (results[i] = "fail") <=> ~outcomes[i].truthy

\* A finished run that recorded a truthy and a falsy value.
C1_Witness ==
    /\ epc = "done"
    /\ \E i, j \in 1..Len(results) :
        /\ outcomes[i].kind = "value" /\ outcomes[i].truthy /\ results[i] = ""
        /\ outcomes[j].kind = "value" /\ ~outcomes[j].truthy /\ results[j] = "fail"

\* C2: an assertion whose evaluation raises always yields a result that is
\* neither "" nor "fail".
C2_RaisedIsDistinct ==
    \A i \in 1..Len(results) :
        outcomes[i].kind = "raise" => results[i] \notin {"", "fail"}

\* C3: once the loop is over, the printed results have one element per
\* assertion of the input: an assertion that raises contributes its own
\* element and the later ones are still evaluated.
C3_ResultsAligned ==
    epc \in {"done", "exited"} =>
        \E k \in 1..Len(stdout) :
            /\ stdout[k].kind = "json"
            /\ Len(stdout[k].results) = Len(data.assertions)
            /\ Len(outcomes) = Len(data.assertions)

\* C4: the result of assertion i is the one it has in an environment built
\* fresh from the input, whatever was evaluated before it.
C4_FreshEnvironment ==
    \A i \in 1..Len(results) :
        results[i] = RecordResult(PyEval(data.assertions[i], BuildContext(data)))

\* C5: the process writes to standard output exactly once, the JSON object
\* with the results, after all assertions were evaluated, and nothing else.
C5_StdoutOnce ==
    /\ EvaluatorEnded =>
        /\ stdout = <<Json(results)>>
        /\ Len(results) = Len(data.assertions)
    /\ ~EvaluatorEnded => stdout = <<>>

\* The events the specification puts in the derived errors list: those whose
\* type contains "error" or whose stringified payload contains "error".
TypeOrPayloadHasError(ev) ==
    \/ ev.type.t = "str" /\ Contains("error", ev.type.s)
    \/ ev.content.t = "str" /\ Contains("error", ev.content.s)

\* C6: for every transcript, events without a type or a payload included,
\* the errors list is built and is the subsequence of those events.
C6_ErrorsList ==
    epc # "start" =>
        /\ epc # "crashed"
        /\ eval_context.errors = SelectSeq(data.transcript, TypeOrPayloadHasError)

(***************************************************************************)
(* Properties of the executor.                                             *)
(***************************************************************************)
\* An execute() call between its first suspension and its return.
InFlight(t) == tpc[t] \in {"createSession", "send", "waiting", "destroy"}

\* C7: execute never raises; every failure of a trial is returned as an
\* ExecutionResult.
C7_NeverRaises ==
    \A t \in Trials : tpc[t] # "raised"

\* C8: every blocking external call of execute is bounded, so a call that
\* has started one eventually returns an ExecutionResult.
C8_EventuallyReturns ==
    \A t \in Trials : InFlight(t) ~> (tpc[t] = "returned")

\* The paths of the files of a context.
ContextPaths(ctx) == { ctx.files[i].path : i \in 1..Len(ctx.files) }

\* C9: the workspace a trial runs in holds no file written for another
\* trial's context.
C9_TrialsIsolated ==
    \A t \in Trials :
        InFlight(t) => FilesOf(fs, _workspace) \subseteq ContextPaths(context[t])

(***************************************************************************)
(* Properties of the explanation-quality grader.                           *)
(***************************************************************************)
\* The number of criteria the checks list marks as satisfied.
Satisfied == Cardinality({ i \in 1..Len(checks) : checks[i] })

\* n times a number, exactly.
RECURSIVE ExactTimes(_, _)
ExactTimes(n, x) == IF n = 0 THEN F00 ELSE ExactAdd(x, ExactTimes(n - 1, x))

\* C10: the grader returns score = 0.2 * (number of satisfied criteria, of
\* five), so 0.0 <= score <= 1.0; passed is true exactly when score >= 0.6,
\* that is when at least three criteria are satisfied; details reports the
\* threshold 0.6.
C10_ScoreAndPassed ==
    gpc = "returned" =>
        /\ Len(checks) = 5
        /\ gresult.score = RoundToDouble(ExactTimes(Satisfied, F02))
        /\ FGe(gresult.score, F00) /\ FGe(F10, gresult.score)
        /\ gresult.passed <=> FGe(gresult.score, F06)
        /\ gresult.passed <=> (Satisfied >= 3)
        /\ gresult.threshold = F06

\* A returned result with exactly three criteria satisfied, which passes
\* with the score 0.2 + 0.2 + 0.2 = 0.6000000000000001.
C10_Witness ==
    /\ gpc = "returned"
    /\ Satisfied = 3
    /\ gresult.passed
    /\ gresult.score = [hi |-> 80530636, lo |-> 214748368]

\* The contexts of a failed execution: the output is empty or missing (a
\* missing task is a context without a language).
FailedExecution(ctx) == ctx.output \in {Absent, Str("")}

\* C11: for a context with an empty output, or without the output or the
\* task, grade does not raise and the result it returns has passed = false
\* and a score of at most 0.4, whatever language the task declares.
C11_FailedExecutionGraded ==
    FailedExecution(gcontext) =>
        /\ gpc # "raised"
        /\ gpc = "returned" =>
            /\ ~gresult.passed
            /\ FGe(FAdd(F02, F02), gresult.score)

\* Results returned for an output that is missing: with a declared language
\* the output does not show (score 0.2) and with no task (score 0.4).
C11_Witness ==
    /\ gpc = "returned"
    /\ gcontext.output = Absent
    /\ \/ gcontext.language = Str("python") /\ gresult.score = F02
       \/ gcontext.language = Absent /\ gresult.score = FAdd(F02, F02)
    /\ ~gresult.passed

\* grade has returned for the output of the specification's first example.
ExampleGraded == gpc = "returned" /\ gcontext.output = Str(O_Example)

\* C12: for the example output the length check passes, the structure check
\* finds the sections "overview" and "steps" (by its "then") and passes, and
\* the educational-tone check passes.
C12_Example ==
    ExampleGraded =>
        /\ checks[1]
        /\ Matches(section_patterns, O_Example) = {1, 2}
        /\ checks[2]
        /\ checks[4]

\* C12 as amended: the structure criterion passes exactly when at least 2 of
\* the section kinds are found; for the example output the length check
\* fails (110 characters, fewer than 200), the structure check finds the one
\* section "overview" ("then" is not followed by a comma) and fails, and the
\* educational-tone check passes with 3 patterns found.
C12_ExampleAmended ==
    gpc = "returned" =>
        /\ checks[2] <=> Cardinality(Matches(section_patterns, OutputOf(gcontext))) >= 2
        /\ ExampleGraded =>
            /\ Len(O_Example) = 110
            /\ ~checks[1]
            /\ Matches(section_patterns, O_Example) = {1}
            /\ ~checks[2]
            /\ Matches(educational_patterns, O_Example) = {1, 2, 5}
            /\ checks[4]

\* The example graded: too short, without structure, educational in tone.
C12_Witness ==
    /\ ExampleGraded
    /\ ~checks[1]
    /\ ~checks[2]
    /\ checks[4]

(***************************************************************************)
(* Properties of the module functions.                                     *)
(***************************************************************************)
\* C13: get_copilot_executor returns the CopilotExecutor class only if the
\* Copilot SDK is available; when the SDK is not installed it returns None,
\* in agreement with is_copilot_sdk_available returning false.
C13_ExecutorOnlyWithSdk ==
    \A i \in 1..Len(calls) :
        calls[i].fn = "get_copilot_executor" =>
            /\ calls[i].ret = "CopilotExecutor" => sdkInstalled
            /\ ~sdkInstalled => calls[i].ret = "None"
            /\ \A j \in 1..Len(calls) :
                  calls[j].fn = "is_copilot_sdk_available" =>
                      (calls[j].ret = "False" <=> calls[i].ret = "None")

(***************************************************************************)
(* Properties of the results of execute.                                   *)
(***************************************************************************)
\* The step in which call t returns its ExecutionResult.
Returns(t) == tpc[t] # "returned" /\ tpc'[t] = "returned"

IsSessionError(ev) == ev.type = "session.error"

\* The message of a session.error event, "Unknown error" if it has none.
MessageOrUnknown(ev) ==
    IF ev.data.message.t = "str" THEN ev.data.message ELSE Str("Unknown error")

\* C14: every returned ExecutionResult has success = true exactly when error
\* is absent, and when a session.error event was handled during the trial
\* it has success = false and the message of such an event ("Unknown error"
\* if the event has none) as its error, for every order of the events and
\* every content of the error event's data.
C14_ErrorAndSuccess ==
    [][\A t \in Trials :
        Returns(t) =>
            /\ result'[t].success <=> (result'[t].error = Null)
            /\ LET errs == SelectSeq(events[t], IsSessionError) IN
                errs # <<>> =>
                    /\ ~result'[t].success
                    /\ \E i \in 1..Len(errs) :
                          result'[t].error = MessageOrUnknown(errs[i])]_vars

\* C15: when the wait ended by the timeout, execute calls destroy and the
\* result it returns has success = false, the error "Session timed out after
\* <timeout_seconds>s" and the output and tool calls of the events collected.
C15_TimeoutReported ==
    [][\A t \in Trials :
        (Returns(t) /\ waitEnded[t] = "timeout") =>
            /\ tpc[t] = "destroy"
            /\ ~result'[t].success
            /\ result'[t].error = Str(TimeoutText)
            /\ result'[t].output = Join(output_parts[t])
            /\ result'[t].tool_calls = ToolCalls(events[t])]_vars

\* The text of a value: nothing for None or a missing entry.
TextOf(v) == IF v.t = "str" THEN v.s ELSE ""

\* The contents of the assistant.message events and the delta contents of
\* the assistant.message_delta events of a list, concatenated in its order.
RECURSIVE AssistantText(_)
AssistantText(evs) ==
    IF evs = <<>> THEN ""
    ELSE (CASE Head(evs).type = "assistant.message" -> TextOf(Head(evs).data.content)
            [] Head(evs).type = "assistant.message_delta" ->
                    TextOf(Head(evs).data.deltaContent)
            [] OTHER -> "") \o AssistantText(Tail(evs))

\* C16: the output of a returned ExecutionResult is the concatenation, in
\* arrival order, of the content of every assistant.message event and the
\* delta content of every assistant.message_delta event handled during the
\* trial, and of nothing else; every handled event, whatever its type, is
\* appended to events, which changes in no other way.
C16_OutputAndEvents ==
    [][\A t \in Trials :
        /\ Returns(t) => result'[t].output = AssistantText(events[t])
        /\ \A raw \in RawEvents :
              HandleEvent(t, raw) =>
                  /\ Len(events'[t]) = Len(events[t]) + 1
                  /\ SubSeq(events'[t], 1, Len(events[t])) = events[t]
                  /\ events'[t][Len(events'[t])].data = raw.data
                  /\ events'[t][Len(events'[t])].type =
                        (IF raw.type = Absent THEN "unknown" ELSE raw.type.s)
        /\ events'[t] # events[t] => \E raw \in RawEvents : HandleEvent(t, raw)]_vars

\* A result whose output joins a message and a delta, in that order.
C16_Witness ==
    /\ tpc[1] = "returned"
    /\ Len(events[1]) = 2
    /\ events[1][1].type = "assistant.message"
    /\ events[1][2].type = "assistant.message_delta"
    /\ result[1].output = "Hello"

IsToolStart(ev) == ev.type = "tool.execution_start"

C18_SessionDestroyed ==
    [][\A t \in Trials :
        (Returns(t) /\ session'[t] # "none") => tpc[t] = "destroy"]_vars

\* C19: after teardown returns, the executor holds no client and no
\* workspace, and no temporary directory it created still exists, for every
\* sequence of setup, execute and teardown calls.  A directory that the
\* operating system refused to remove in this very call is not counted.
C19_TeardownCleans ==
    [][Teardown =>
        /\ _client' = 0
        /\ _workspace' = 0
        /\ DOMAIN fs' \subseteq {_workspace}]_vars

\* C20: once execute has returned, the ExecutionResult no longer changes: an
\* event delivered to the handler afterwards does not alter the result's
\* events, and its events, output and tool_calls stay consistent.
C20_ResultFrozen ==
    [][\A t \in Trials :
        tpc[t] = "returned" =>
            /\ events'[t] = events[t]
            /\ result'[t] = result[t]
            /\ result'[t].output = AssistantText(events'[t])
            /\ result'[t].tool_calls = ToolCalls(events'[t])]_vars

====
